---- MODULE Spec2Model ----
(***************************************************************************)
(* A model of StaticServer (src/server.js): the static file HTTP server.   *)
(*                                                                         *)
(* Representation of JavaScript values                                     *)
(*   - a string that is a path or a URL is the sequence of its             *)
(*     '/'-separated segments: "/a//b" is <<"", "a", "", "b">>, "/" is     *)
(*     <<"", "">>, the empty string is <<"">>.  String concatenation with  *)
(*     a '/' in between is the concatenation of the two sequences;         *)
(*   - any other string (a header value, a body) is a sequence of tokens;  *)
(*     undefined and '' (both falsy) are the empty sequence;               *)
(*   - a number is a record [nan, v]: NaN or the integer v.                *)
(***************************************************************************)
EXTENDS Integers, Sequences, FiniteSets, TLC

VARIABLES config, fs, fsOps, alive, reqs

vars == <<config, fs, fsOps, alive, reqs>>

-----------------------------------------------------------------------------
(* Bounds of the model.                                                    *)

MaxRequests == 2

MaxFsOps == 1

MaxSize == 2

MaxRangeLen == 4

MaxSegs == 6

(* Date.prototype.toUTCString renders whole seconds of a millisecond time. *)
MsPerSec == 1000

-----------------------------------------------------------------------------
(* JavaScript numbers and their renderings.                                *)

Num(n) == [nan |-> FALSE, v |-> n]

NaN == [nan |-> TRUE, v |-> 0]

isNaN(x) == x.nan

(* a > b in JavaScript: false as soon as one side is NaN. *)
Gt(a, b) == ~a.nan /\ ~b.nan /\ a.v > b.v

(* a - b in JavaScript. *)
Minus(a, b) == IF a.nan \/ b.nan THEN NaN ELSE Num(a.v - b.v)

DecDigits == <<"0", "1", "2", "3", "4", "5", "6", "7", "8", "9">>

HexDigits == <<"0", "1", "2", "3", "4", "5", "6", "7", "8", "9",
               "a", "b", "c", "d", "e", "f">>

RECURSIVE Radix(_, _, _)
Radix(n, base, digits) ==
    IF n < base THEN <<digits[n + 1]>>
    ELSE Radix(n \div base, base, digits) \o <<digits[(n % base) + 1]>>

(* Number.prototype.toString(16) of a non-negative integer. *)
Hex(n) == Radix(n, 16, HexDigits)

(* String(x) of a number, as a template literal renders it. *)
Dec(x) ==
    IF x.nan THEN <<"NaN">>
    ELSE IF x.v < 0 THEN <<"-">> \o Radix(-x.v, 10, DecDigits)
    ELSE Radix(x.v, 10, DecDigits)

(* parseInt of a string of decimal digits; parseInt('') is NaN. *)
DigitValue(d) == CHOOSE i \in 0..9 : DecDigits[i + 1] = d

RECURSIVE DigitsValue(_)
DigitsValue(ds) ==
    IF ds = <<>> THEN 0
    ELSE 10 * DigitsValue(SubSeq(ds, 1, Len(ds) - 1)) + DigitValue(ds[Len(ds)])

parseInt(ds) == IF ds = <<>> THEN NaN ELSE Num(DigitsValue(ds))

-----------------------------------------------------------------------------
(* Paths: require('path') on POSIX, as start() and respondDirectory use it. *)

Last(s) == s[Len(s)]

Front(s) == SubSeq(s, 1, Len(s) - 1)

(* The string starts with '/'. *)
isAbsolute(p) == Len(p) >= 2 /\ p[1] = ""

(* hasTrailingSlash: the last character of the string is '/'. *)
hasTrailingSlash(url) == Len(url) >= 2 /\ Last(url) = ""

(* normalizeString: drop '' and '.', resolve '..' against the segment     *)
(* before it; above the start '..' is kept only for a relative path.      *)
RECURSIVE normalizeString(_, _, _)
normalizeString(segs, res, allowAboveRoot) ==
    IF segs = <<>> THEN res
    ELSE LET s    == Head(segs)
             rest == Tail(segs)
         IN  IF s = "" \/ s = "." THEN normalizeString(rest, res, allowAboveRoot)
             ELSE IF s = ".."
                  THEN IF res # <<>> /\ Last(res) # ".."
                       THEN normalizeString(rest, Front(res), allowAboveRoot)
                       ELSE IF allowAboveRoot
                            THEN normalizeString(rest, res \o <<"..">>, allowAboveRoot)
                            ELSE normalizeString(rest, res, allowAboveRoot)
                  ELSE normalizeString(rest, res \o <<s>>, allowAboveRoot)

(* path.normalize *)
normalize(p) ==
    IF p = <<"">> THEN <<".">>
    ELSE LET abs      == isAbsolute(p)
             trailing == hasTrailingSlash(p)
             body     == normalizeString(p, <<>>, ~abs)
         IN  IF body = <<>>
             THEN IF abs THEN <<"", "">>
                  ELSE IF trailing THEN <<".", "">> ELSE <<".">>
             ELSE LET b == IF trailing THEN body \o <<"">> ELSE body
                  IN  IF abs THEN <<"">> \o b ELSE b

(* path.join of two strings: the non-empty ones joined by '/', normalized. *)
join(a, b) ==
    IF a = <<"">> /\ b = <<"">> THEN <<".">>
    ELSE IF a = <<"">> THEN normalize(b)
    ELSE IF b = <<"">> THEN normalize(a)
    ELSE normalize(a \o b)

-----------------------------------------------------------------------------
(* The constructor's fields.  config.json is not part of the sources: the  *)
(* root and the index page are fixed here, the four cache flags are drawn  *)
(* by Init.  this.zipMatch is never assigned: it stays undefined.          *)
(* strictOffsets is not a field of the server: it tells whether the        *)
(* runtime's fs.createReadStream validates its offsets.                    *)

root == <<"", "www">>

indexPage == "index.html"

zipMatch == <<>>

Configs ==
    [enableCacheControl : BOOLEAN, enableExpires : BOOLEAN,
     enableETag : BOOLEAN, enableLastModified : BOOLEAN,
     strictOffsets : BOOLEAN]

AllEnabled ==
    [enableCacheControl |-> TRUE, enableExpires |-> TRUE,
     enableETag |-> TRUE, enableLastModified |-> TRUE,
     strictOffsets |-> TRUE]

-----------------------------------------------------------------------------
(* The file system: an entry per absolute path, keyed by the path's        *)
(* non-empty segments.  A file of size n holds the bytes 1..n.             *)

FsKeys ==
    { <<>>, <<"www">>, <<"www", "a.js">>, <<"www", "d">>,
      <<"www", "d", "index.html">>, <<"www", "e">>, <<"www", "e", "b.png">> }

FileKeys == { <<"www", "a.js">>, <<"www", "d", "index.html">>, <<"www", "e", "b.png">> }

NoEntry == [kind |-> "none", size |-> 0, mtime |-> 0]

Dir == [kind |-> "dir", size |-> 0, mtime |-> 0]

File(size, mtime) == [kind |-> "file", size |-> size, mtime |-> mtime]

Mtimes == {0, MsPerSec \div 2, MsPerSec}

IsPrefix(p, q) == Len(p) <= Len(q) /\ SubSeq(q, 1, Len(p)) = p

Key(p) == SelectSeq(p, LAMBDA s : s # "")

(* fs.stat / fs.statSync: the entry, or none (ENOENT, or ENOTDIR for a     *)
(* file named with a trailing slash).                                      *)
statOf(f, p) ==
    LET k == Key(p)
    IN  IF k \notin DOMAIN f THEN NoEntry
        ELSE IF hasTrailingSlash(p) /\ f[k].kind = "file" THEN NoEntry
        ELSE f[k]

existsSync(f, p) == statOf(f, p).kind # "none"

Content(size) == [i \in 1..size |-> i]

RECURSIVE SetToSeq(_)
SetToSeq(S) ==
    IF S = {} THEN <<>>
    ELSE LET x == CHOOSE y \in S : TRUE IN <<x>> \o SetToSeq(S \ {x})

(* fs.readdir: the names in the directory. *)
readdirOf(f, p) ==
    LET k == Key(p)
    IN  IF statOf(f, p).kind # "dir" THEN [err |-> TRUE, files |-> <<>>]
        ELSE [err |-> FALSE,
              files |-> SetToSeq({ Last(c) : c \in { c \in DOMAIN f :
                            /\ Len(c) = Len(k) + 1
                            /\ IsPrefix(k, c)
                            /\ f[c].kind # "none" } })]

-----------------------------------------------------------------------------
(* http.ServerResponse.                                                    *)

HeaderNames ==
    { "expires", "cache-control", "last-modified", "etag", "content-type",
      "accept-ranges", "content-range", "content-encoding", "location" }

toLowerCase(name) ==
    CASE name = "Expires" -> "expires"
      [] name = "Cache-Control" -> "cache-control"
      [] name = "Last-Modified" -> "last-modified"
      [] name = "ETag" -> "etag"
      [] name = "Content-Type" -> "content-type"
      [] name = "Accept-Ranges" -> "accept-ranges"
      [] name = "Content-Range" -> "content-range"
      [] name = "Content-Encoding" -> "content-encoding"
      [] name = "Location" -> "location"

NoBody == [text |-> <<>>, data |-> <<>>, encoding |-> ""]

(* A fresh response: statusCode defaults to 200; ends counts the calls of  *)
(* end(), afterEnd records a writeHead, end or pipe on a finished response. *)
NewRes ==
    [statusCode |-> 200, headers |-> [h \in HeaderNames |-> <<>>],
     finished |-> FALSE, body |-> NoBody, ends |-> 0, afterEnd |-> FALSE]

(* res.setHeader: the header is kept under its lower-cased name, where     *)
(* res._headers shows it.                                                  *)
setHeader(res, name, value) ==
    [res EXCEPT !.headers[toLowerCase(name)] = value]

RECURSIVE setHeaders(_, _)
setHeaders(res, hdrs) ==
    IF hdrs = <<>> THEN res
    ELSE setHeaders(setHeader(res, Head(hdrs)[1], Head(hdrs)[2]), Tail(hdrs))

setStatus(res, code) == [res EXCEPT !.statusCode = code]

writeHead(res, code, hdrs) ==
    [setHeaders(setStatus(res, code), hdrs) EXCEPT !.afterEnd = @ \/ res.finished]

(* res.end(text): the body is complete. *)
end(res, text) ==
    [res EXCEPT !.finished = TRUE,
                !.ends = @ + 1,
                !.afterEnd = @ \/ res.finished,
                !.body = IF res.finished THEN @ ELSE [@ EXCEPT !.text = @ \o text]]

(* The string of a URL or path, as a template literal renders it. *)
RECURSIVE Str(_)
Str(p) ==
    IF Len(p) = 1 THEN (IF p[1] = "" THEN <<>> ELSE <<p[1]>>)
    ELSE (IF p[1] = "" THEN <<>> ELSE <<p[1]>>) \o <<"/">> \o Str(Tail(p))

-----------------------------------------------------------------------------
(* Methods of StaticServer.  A method that writes to the response takes    *)
(* the response and yields the response it leaves.                         *)

respondError(err, res) == end(writeHead(res, 500, <<>>), err)

(* respondNotFound whose body leaves the URL out. *)
respondNotFoundNoUrl(req, res) ==
    end(writeHead(res, 404, << <<"Content-Type", <<"text/html">> >> >>),
        <<"<h1>Not Found</h1><p>The requested URL ">>
            \o <<" was not found on this server.</p>">>)

respondNotFound(req, res) ==
    end(writeHead(res, 404, << <<"Content-Type", <<"text/html">> >> >>),
        <<"<h1>Not Found</h1><p>The requested URL ">> \o Str(req.url)
            \o <<" was not found on this server.</p>">>)

generateETag(stat) ==
    <<"W/\"">> \o Hex(stat.size) \o <<"-">> \o Hex(stat.mtime) \o <<"\"">>

(* Date.prototype.toUTCString: the date down to the second. *)
toUTCString(mtime) == <<"utc:">> \o Radix(mtime \div MsPerSec, 10, DecDigits)

setFreshHeaders(stat, res) ==
    LET lastModified == toUTCString(stat.mtime)
        r1 == IF config.enableExpires
              THEN setHeader(res, "Expires", <<"now+maxAge">>) ELSE res
        r2 == IF config.enableCacheControl
              THEN setHeader(r1, "Cache-Control", <<"public, max-age=", "maxAge">>)
              ELSE r1
        r3 == IF config.enableLastModified
              THEN setHeader(r2, "Last-Modified", lastModified) ELSE r2
    IN  IF config.enableETag
        THEN setHeader(r3, "ETag", generateETag(stat)) ELSE r3

(* isFresh reading the response headers under the names setHeader was     *)
(* given ('ETag', 'Last-Modified'), where res._headers holds nothing.     *)
isFreshWrongKey(reqHeaders, resHeaders) ==
    LET noneMatch    == reqHeaders["if-none-match"]
        lastModified == reqHeaders["if-modified-since"]
    IN  IF ~(noneMatch # <<>> \/ lastModified # <<>>) THEN FALSE
        ELSE IF noneMatch # <<>> THEN FALSE
        ELSE IF lastModified # <<>> THEN FALSE
        ELSE TRUE

(* isFresh for which one matching validator is enough. *)
isFreshAnyMatch(reqHeaders, resHeaders) ==
    LET noneMatch    == reqHeaders["if-none-match"]
        lastModified == reqHeaders["if-modified-since"]
    IN  \/ noneMatch # <<>> /\ noneMatch = resHeaders["etag"]
        \/ lastModified # <<>> /\ lastModified = resHeaders["last-modified"]

(* isFresh that takes a request without validators for fresh. *)
isFreshWithoutValidators(reqHeaders, resHeaders) ==
    LET noneMatch    == reqHeaders["if-none-match"]
        lastModified == reqHeaders["if-modified-since"]
    IN  IF noneMatch # <<>> /\ noneMatch # resHeaders["etag"] THEN FALSE
        ELSE IF lastModified # <<>> /\ lastModified # resHeaders["last-modified"]
             THEN FALSE
        ELSE TRUE

isFresh(reqHeaders, resHeaders) ==
    LET noneMatch    == reqHeaders["if-none-match"]
        lastModified == reqHeaders["if-modified-since"]
    IN  IF ~(noneMatch # <<>> \/ lastModified # <<>>) THEN FALSE
        ELSE IF noneMatch # <<>> /\ noneMatch # resHeaders["etag"] THEN FALSE
        ELSE IF lastModified # <<>> /\ lastModified # resHeaders["last-modified"]
             THEN FALSE
        ELSE TRUE

(* path.extname of the names of the file system. *)
extname(pathName) ==
    LET base == IF Key(pathName) = <<>> THEN "" ELSE Last(Key(pathName))
    IN  CASE base = "a.js" -> <<".js">>
          [] base = "index.html" -> <<".html">>
          [] base = "b.png" -> <<".png">>
          [] OTHER -> <<>>

(* String.prototype.match(re): an undefined re is the empty pattern, which *)
(* matches every string; a pattern is the set of strings it matches.       *)
StringMatch(str, re) == IF re = <<>> THEN TRUE ELSE str \in re

shouldCompress(pathName) == StringMatch(extname(pathName), zipMatch)

responseNotModified(res) == end(setStatus(res, 304), <<>>)

-----------------------------------------------------------------------------
(* Read streams.                                                           *)

NoStream ==
    [state |-> "none", path |-> <<"">>, whole |-> TRUE,
     start |-> Num(0), end |-> Num(0), transform |-> ""]

BadOffsets(st) ==
    ~st.whole /\ (st.start.nan \/ st.end.nan \/ st.start.v < 0 \/ st.end.v < 0)

(* fs.createReadStream(path, {start, end}).  Offsets that are NaN or       *)
(* negative are rejected with an exception by a runtime that validates     *)
(* them and accepted by one that does not.                                 *)
createReadStream(pathName, whole, start, end_) ==
    LET st == [state |-> "open", path |-> pathName, whole |-> whole,
               start |-> start, end |-> end_, transform |-> ""]
    IN  [threw |-> BadOffsets(st) /\ config.strictOffsets, stream |-> st]

Min(a, b) == IF a < b THEN a ELSE b

(* The byte sequences a stream can deliver from a file of the given size:  *)
(* the offsets start..end inclusive that the file has; with offsets the    *)
(* runtime did not validate, what is read is not determined.               *)
ReadResults(st, size) ==
    IF st.whole THEN { Content(size) }
    ELSE IF BadOffsets(st) THEN { <<>>, Content(size) }
    ELSE { SubSeq(Content(size), st.start.v + 1, Min(st.end.v + 1, size)) }

Has(tokens, t) == \E i \in 1..Len(tokens) : tokens[i] = t

(* compressHandler that prefers deflate to gzip. *)
compressHandlerDeflateFirst(readStream, req, res) ==
    LET acceptEncoding == req.headers["accept-encoding"]
    IN  IF acceptEncoding = <<>>
           \/ ~(Has(acceptEncoding, "gzip") \/ Has(acceptEncoding, "deflate"))
        THEN [stream |-> readStream, res |-> res]
        ELSE IF Has(acceptEncoding, "deflate")
        THEN [stream |-> [readStream EXCEPT !.transform = "deflate"],
              res |-> setHeader(res, "Content-Encoding", <<"deflate">>)]
        ELSE [stream |-> [readStream EXCEPT !.transform = "gzip"],
              res |-> setHeader(res, "Content-Encoding", <<"gzip">>)]

compressHandler(readStream, req, res) ==
    LET acceptEncoding == req.headers["accept-encoding"]
    IN  IF acceptEncoding = <<>>
           \/ ~(Has(acceptEncoding, "gzip") \/ Has(acceptEncoding, "deflate"))
        THEN [stream |-> readStream, res |-> res]
        ELSE IF Has(acceptEncoding, "gzip")
        THEN [stream |-> [readStream EXCEPT !.transform = "gzip"],
              res |-> setHeader(res, "Content-Encoding", <<"gzip">>)]
        ELSE [stream |-> [readStream EXCEPT !.transform = "deflate"],
              res |-> setHeader(res, "Content-Encoding", <<"deflate">>)]

-----------------------------------------------------------------------------
(* Range headers: a header is a sequence of the tokens "bytes=", "-", a    *)
(* decimal digit, or another character.                                    *)

IsDigit(t) == \E i \in 1..10 : DecDigits[i] = t

RECURSIVE DigitEnd(_, _)
DigitEnd(text, i) ==
    IF i <= Len(text) /\ IsDigit(text[i]) THEN DigitEnd(text, i + 1) ELSE i

(* rangeText.match of the pattern "bytes=", digits, "-", digits: the       *)
(* leftmost match and its two groups of digits, or null.                   *)
rangeMatch(text) ==
    LET starts == { i \in 1..Len(text) :
                      /\ text[i] = "bytes="
                      /\ LET j == DigitEnd(text, i + 1)
                         IN  j <= Len(text) /\ text[j] = "-" }
    IN  IF starts = {} THEN [null |-> TRUE, g1 |-> <<>>, g2 |-> <<>>]
        ELSE LET i == CHOOSE x \in starts : \A y \in starts : x <= y
                 j == DigitEnd(text, i + 1)
                 k == DigitEnd(text, j + 1)
             IN  [null |-> FALSE,
                  g1 |-> SubSeq(text, i + 1, j - 1),
                  g2 |-> SubSeq(text, j + 1, k - 1)]

(* The offsets taking the end of a range "a-b" from the first group. *)
rangeOffsetsEndFromStart(start, end_, totalSize) ==
    IF isNaN(start) /\ ~isNaN(end_)
    THEN [threw |-> FALSE, start |-> Minus(Num(totalSize), end_),
          end |-> Num(totalSize - 1)]
    ELSE IF ~isNaN(start) /\ isNaN(end_)
    THEN [threw |-> FALSE, start |-> start, end |-> Num(totalSize - 1)]
    ELSE [threw |-> FALSE, start |-> start, end |-> start]

(* The offsets ending an open range at totalSize instead of totalSize - 1. *)
rangeOffsetsEndAtSize(start, end_, totalSize) ==
    IF isNaN(start) /\ ~isNaN(end_)
    THEN [threw |-> FALSE, start |-> Minus(Num(totalSize), end_),
          end |-> Num(totalSize)]
    ELSE IF ~isNaN(start) /\ isNaN(end_)
    THEN [threw |-> FALSE, start |-> start, end |-> Num(totalSize)]
    ELSE [threw |-> FALSE, start |-> start, end |-> end_]

(* getRange from its two parsed groups on: a suffix range, an open range,  *)
(* or the two offsets as they are.                                         *)
rangeOffsets(start, end_, totalSize) ==
    IF isNaN(start) /\ ~isNaN(end_)
    THEN [threw |-> FALSE, start |-> Minus(Num(totalSize), end_),
          end |-> Num(totalSize - 1)]
    ELSE IF ~isNaN(start) /\ isNaN(end_)
    THEN [threw |-> FALSE, start |-> start, end |-> Num(totalSize - 1)]
    ELSE [threw |-> FALSE, start |-> start, end |-> end_]

(* getRange: threw tells that matchResults was null, so that reading       *)
(* matchResults[1] raised a TypeError.                                     *)
getRange(rangeText, totalSize) ==
    LET matchResults == rangeMatch(rangeText)
    IN  IF matchResults.null THEN [threw |-> TRUE, start |-> NaN, end |-> NaN]
        ELSE rangeOffsets(parseInt(matchResults.g1), parseInt(matchResults.g2),
                          totalSize)

(* The two branches of rangeHandler. *)
rangeNotSatisfiable(totalSize, res) ==
    end(setHeader(setStatus(res, 416), "Content-Range",
                  <<"bytes */">> \o Dec(Num(totalSize))), <<>>)

partialContent(pathName, range, totalSize, res) ==
    [threw  |-> createReadStream(pathName, FALSE, range.start, range.end).threw,
     stream |-> createReadStream(pathName, FALSE, range.start, range.end).stream,
     res |-> setHeader(setStatus(res, 206), "Content-Range",
                 <<"bytes ">> \o Dec(range.start) \o <<"-">>
                     \o Dec(range.end) \o <<"/">> \o Dec(Num(totalSize)))]

(* rangeHandler whose 416 branch does not return: it falls through to     *)
(* the 206 branch.                                                         *)
checkRangeFallThrough(pathName, range, totalSize, res) ==
    IF range.threw THEN [threw |-> TRUE, stream |-> NoStream, res |-> res]
    ELSE IF Gt(range.start, Num(totalSize)) \/ Gt(range.end, Num(totalSize))
            \/ Gt(range.start, range.end)
    THEN partialContent(pathName, range, totalSize,
                        rangeNotSatisfiable(totalSize, res))
    ELSE partialContent(pathName, range, totalSize, res)

(* rangeHandler that does not compare the end with the size. *)
checkRangeNoEndCheck(pathName, range, totalSize, res) ==
    IF range.threw THEN [threw |-> TRUE, stream |-> NoStream, res |-> res]
    ELSE IF Gt(range.start, Num(totalSize)) \/ Gt(range.start, range.end)
    THEN [threw |-> FALSE, stream |-> NoStream,
          res |-> rangeNotSatisfiable(totalSize, res)]
    ELSE partialContent(pathName, range, totalSize, res)

(* rangeHandler once getRange has returned (or thrown): 416 for a range    *)
(* the comparisons reject, 206 and a read stream otherwise.  The stream is *)
(* NoStream where the source returns null.                                 *)
checkRange(pathName, range, totalSize, res) ==
    IF range.threw THEN [threw |-> TRUE, stream |-> NoStream, res |-> res]
    ELSE IF Gt(range.start, Num(totalSize)) \/ Gt(range.end, Num(totalSize))
            \/ Gt(range.start, range.end)
    THEN [threw |-> FALSE, stream |-> NoStream,
          res |-> rangeNotSatisfiable(totalSize, res)]
    ELSE partialContent(pathName, range, totalSize, res)

rangeHandler(pathName, rangeText, totalSize, res) ==
    checkRange(pathName, getRange(rangeText, totalSize), totalSize, res)

(* mime.lookup (./lib/mime): a content type per extension. *)
mimeLookup(pathName) == <<"type of ">> \o extname(pathName)

(* responseFile once the read stream is made: nothing is piped after an   *)
(* exception or a null stream; otherwise the stream, compressed where      *)
(* shouldCompress says so, is piped to the response.                       *)
pipeFile(pathName, req, opened) ==
    IF opened.threw
    THEN [threw |-> TRUE, piped |-> FALSE, stream |-> NoStream, res |-> opened.res]
    ELSE IF opened.stream.state = "none"
    THEN [threw |-> FALSE, piped |-> FALSE, stream |-> NoStream, res |-> opened.res]
    ELSE LET zipped == IF shouldCompress(pathName)
                       THEN compressHandler(opened.stream, req, opened.res)
                       ELSE [stream |-> opened.stream, res |-> opened.res]
         IN  [threw |-> FALSE, piped |-> TRUE, stream |-> zipped.stream,
              res |-> [zipped.res EXCEPT !.afterEnd = @ \/ zipped.res.finished]]

(* responseFile: piped tells that readStream.pipe(res) was reached. *)
responseFile(stat, pathName, req, res) ==
    LET r1 == setHeader(setHeader(res, "Content-Type", mimeLookup(pathName)),
                        "Accept-Ranges", <<"bytes">>)
    IN  pipeFile(pathName, req,
                 IF req.headers["range"] # <<>>
                 THEN rangeHandler(pathName, req.headers["range"], stat.size, r1)
                 ELSE [threw |-> FALSE, res |-> r1,
                       stream |-> createReadStream(pathName, TRUE,
                                                   Num(0), Num(0)).stream])

(* respondRedirect that leaves the '/' out of the location. *)
respondRedirectNoSlash(req, res) ==
    LET location == req.url
    IN  end(writeHead(res, 301, << <<"Location", Str(location)>>,
                                   <<"Content-Type", <<"text/html">> >> >>),
            <<"Redirecting to <a href='">> \o Str(location) \o <<"'>">>
                \o Str(location) \o <<"</a>">>)

respondRedirect(req, res) ==
    LET location == req.url \o <<"">>
    IN  end(writeHead(res, 301, << <<"Location", Str(location)>>,
                                   <<"Content-Type", <<"text/html">> >> >>),
            <<"Redirecting to <a href='">> \o Str(location) \o <<"'>">>
                \o Str(location) \o <<"</a>">>)

-----------------------------------------------------------------------------
(* Requests.  pc is the request's position: "idle" (not received yet),     *)
(* "routeStat" (routeHandler's fs.stat pending), "respondStat" (respond's  *)
(* fs.stat pending), "readdir" (fs.readdir pending), "readdirCb" (its      *)
(* result waits for the callback), "piping" (a read stream is piped to     *)
(* the response), "done", or "threw" (the handler raised an exception).    *)
(* pathName is the path of the pending file system call, stat the result   *)
(* of the last fs.stat that succeeded.                                     *)

RequestHeaderNames == {"range", "if-none-match", "if-modified-since", "accept-encoding"}

NoHeaders == [h \in RequestHeaderNames |-> <<>>]

NewReq ==
    [pc |-> "idle", url |-> <<"">>, headers |-> NoHeaders, pathName |-> <<"">>,
     res |-> NewRes, stream |-> NoStream, stat |-> NoEntry,
     io |-> [err |-> FALSE, files |-> <<>>]]

(* An exception nobody catches. *)
Throw(rq) == [rq EXCEPT !.pc = "threw"]

(* url.parse(req.url).pathname of a request target without query: the     *)
(* target itself in origin form, the part after the host in absolute form. *)
pathname(url) ==
    IF isAbsolute(url) THEN url
    ELSE IF Len(url) > 3 THEN <<"">> \o SubSeq(url, 4, Len(url))
    ELSE <<"", "">>

(* respond: fs.stat(pathName, callback). *)
respond(rq, pathName) == [rq EXCEPT !.pc = "respondStat", !.pathName = pathName]

(* The request after responseFile has returned or thrown. *)
respondFile(rq, stat, out) ==
    IF out.threw
    THEN [rq EXCEPT !.res = out.res, !.stat = stat, !.pc = "threw"]
    ELSE [rq EXCEPT !.res = out.res, !.stat = stat,
                    !.stream = out.stream,
                    !.pc = IF out.piped THEN "piping" ELSE "done"]

(* The callback of respond's fs.stat handling a Range header before it    *)
(* looks at the validators.                                                *)
respondCallbackRangeFirst(rq) ==
    LET stat == statOf(fs, rq.pathName)
        r1   == setFreshHeaders(stat, rq.res)
    IN  IF stat.kind = "none" THEN Throw(rq)
        ELSE IF rq.headers["range"] = <<>> /\ isFresh(rq.headers, r1.headers)
        THEN [rq EXCEPT !.res = responseNotModified(r1), !.stat = stat, !.pc = "done"]
        ELSE respondFile(rq, stat, responseFile(stat, rq.pathName, rq, r1))

(* The callback of respond's fs.stat.  On err it evaluates respondError,   *)
(* which is a method and no binding in scope: a ReferenceError.            *)
respondCallback(rq) ==
    LET stat == statOf(fs, rq.pathName)
        err  == stat.kind = "none"
        r1   == setFreshHeaders(stat, rq.res)
    IN  IF err THEN Throw(rq)
        ELSE IF isFresh(rq.headers, r1.headers)
        THEN [rq EXCEPT !.res = responseNotModified(r1), !.stat = stat, !.pc = "done"]
        ELSE respondFile(rq, stat, responseFile(stat, rq.pathName, rq, r1))

respondDirectory(rq) ==
    LET indexPagePath == join(rq.pathName, <<indexPage>>)
    IN  IF existsSync(fs, indexPagePath) THEN respond(rq, indexPagePath)
        ELSE [rq EXCEPT !.pc = "readdir"]

(* The directory listing: threw tells that fs.statSync raised. *)
RECURSIVE listing(_, _, _, _)
listing(files, requestPath, pathName, content) ==
    IF files = <<>> THEN [threw |-> FALSE, content |-> content]
    ELSE LET file == Head(files)
             stat == statOf(fs, join(pathName, <<file>>))
             link == join(requestPath, <<file>>)
             itemLink == IF stat.kind = "dir" THEN join(link, <<"", "">>) ELSE link
         IN  IF stat.kind = "none" THEN [threw |-> TRUE, content |-> content]
             ELSE listing(Tail(files), requestPath, pathName,
                          content \o <<"<p><a href='">> \o Str(itemLink) \o <<"'>">>
                              \o <<file>> \o <<"</a></p>">>)

(* The callback of fs.readdir.  On err it evaluates respondError, which is *)
(* no binding in scope: a ReferenceError.                                  *)
readdirCallback(rq) ==
    LET requestPath == pathname(rq.url)
        made == listing(rq.io.files, requestPath, rq.pathName,
                        <<"<h1>Index of ">> \o Str(requestPath) \o <<"</h1>">>)
    IN  IF rq.io.err THEN Throw(rq)
        ELSE IF made.threw THEN Throw(rq)
        ELSE [rq EXCEPT !.pc = "done",
                        !.res = end(writeHead(rq.res, 200,
                                       << <<"Content-Type", <<"text/html">> >> >>),
                                    made.content)]

(* The callback of routeHandler's fs.stat. *)
routeHandlerCallback(rq) ==
    LET stat == statOf(fs, rq.pathName)
        err  == stat.kind = "none"
        requestedPath == pathname(rq.url)
    IN  IF ~err
        THEN IF hasTrailingSlash(requestedPath) /\ stat.kind = "dir"
             THEN respondDirectory([rq EXCEPT !.stat = stat])
             ELSE IF stat.kind = "dir"
             THEN [rq EXCEPT !.res = respondRedirect(rq, rq.res), !.stat = stat,
                             !.pc = "done"]
             ELSE respond([rq EXCEPT !.stat = stat], rq.pathName)
        ELSE [rq EXCEPT !.res = respondNotFound(rq, rq.res), !.pc = "done"]

(* The request listener of start(): routeHandler issues the first fs.stat. *)
start(url, headers) ==
    [NewReq EXCEPT !.url = url, !.headers = headers, !.pc = "routeStat",
                   !.pathName = join(root, normalize(url))]

(* readStream.pipe(res) runs to its end: the stream, through its           *)
(* transform, has written the data and ended the response.                 *)
pipeEnd(rq, data) ==
    [rq EXCEPT !.pc = "done",
               !.stream.state = "ended",
               !.res = [end(rq.res, <<>>) EXCEPT
                           !.body.data = data,
                           !.body.encoding = rq.stream.transform]]

-----------------------------------------------------------------------------
(* The actions: a request arrives, a pending callback runs, the file       *)
(* system changes under the server.  An exception that nobody catches      *)
(* ends the process: no callback runs after it.                            *)

Requests == 1..MaxRequests

Settle(r, rq) ==
    /\ reqs' = [reqs EXCEPT ![r] = rq]
    /\ alive' = (alive /\ rq.pc # "threw")
    /\ UNCHANGED <<config, fs, fsOps>>

(* http.createServer's listener, for a request target and headers. *)
Start(r, urls, headers) ==
    /\ alive
    /\ reqs[r].pc = "idle"
    /\ r > 1 => reqs[r - 1].pc # "idle"
    /\ \E url \in urls, h \in headers : Settle(r, start(url, h))

RouteHandlerCb(r) ==
    /\ alive
    /\ reqs[r].pc = "routeStat"
    /\ Settle(r, routeHandlerCallback(reqs[r]))

RespondCb(r) ==
    /\ alive
    /\ reqs[r].pc = "respondStat"
    /\ Settle(r, respondCallback(reqs[r]))

(* fs.readdir completes: its result waits for the callback. *)
ReaddirIO(r) ==
    /\ alive
    /\ reqs[r].pc = "readdir"
    /\ Settle(r, [reqs[r] EXCEPT !.pc = "readdirCb",
                                 !.io = readdirOf(fs, reqs[r].pathName)])

ReaddirCb(r) ==
    /\ alive
    /\ reqs[r].pc = "readdirCb"
    /\ Settle(r, readdirCallback(reqs[r]))

(* The piped read stream settles: it reads the file as it is now and ends  *)
(* the response, or, the file being gone, emits 'error', for which there   *)
(* is no listener.                                                         *)
StreamSettle(r) ==
    /\ alive
    /\ reqs[r].pc = "piping"
    /\ LET now == statOf(fs, reqs[r].stream.path)
       IN  IF now.kind # "file"
           THEN Settle(r, [reqs[r] EXCEPT !.pc = "threw", !.stream.state = "error"])
           ELSE \E data \in ReadResults(reqs[r].stream, now.size) :
                    Settle(r, pipeEnd(reqs[r], data))

(* The client closes the connection while the body is piped: the response *)
(* emits 'close', on which pipe() unpipes the source and does nothing      *)
(* more.  No handler of the server listens for 'close', so the read stream *)
(* (and its transform) stays open, paused.                                 *)
ClientClose(r) ==
    /\ alive
    /\ reqs[r].pc = "piping"
    /\ Settle(r, [reqs[r] EXCEPT !.pc = "aborted"])

(* Another process removes a file or a directory with what is in it. *)
Remove(keys) ==
    /\ fsOps < MaxFsOps
    /\ \E k \in keys :
          /\ fs[k].kind # "none"
          /\ fs' = [c \in DOMAIN fs |-> IF IsPrefix(k, c) THEN NoEntry ELSE fs[c]]
    /\ fsOps' = fsOps + 1
    /\ UNCHANGED <<config, alive, reqs>>

(* Another process rewrites a file: a later mtime, any size. *)
Touch(keys) ==
    /\ fsOps < MaxFsOps
    /\ \E k \in keys, size \in 0..MaxSize, mtime \in Mtimes :
          /\ fs[k].kind = "file"
          /\ mtime > fs[k].mtime
          /\ fs' = [fs EXCEPT ![k] = File(size, mtime)]
    /\ fsOps' = fsOps + 1
    /\ UNCHANGED <<config, alive, reqs>>

(* The tree under the root, with files of the given size. *)
Tree(size) == [k \in FsKeys |-> IF k \in FileKeys THEN File(size, 0) ELSE Dir]

-----------------------------------------------------------------------------
(* Inputs: request targets and headers.                                    *)

RouteUrls ==
    { <<"", "a.js">>, <<"", "d">>, <<"", "d", "">>, <<"", "e", "">>, <<"", "n">> }

Headers(ranges, noneMatches, modifiedSinces, encodings) ==
    { ("range" :> rg) @@ ("if-none-match" :> inm)
          @@ ("if-modified-since" :> ims) @@ ("accept-encoding" :> ae) :
        rg \in ranges, inm \in noneMatches, ims \in modifiedSinces, ae \in encodings }

(* The sequences over S of length 1..n. *)
RECURSIVE SeqsUpTo(_, _)
SeqsUpTo(S, n) ==
    IF n = 0 THEN {}
    ELSE LET shorter == SeqsUpTo(S, n - 1)
         IN  { <<x>> : x \in S } \cup shorter
                \cup { s \o <<x>> : s \in { t \in shorter : Len(t) = n - 1 }, x \in S }

RangeAlphabet == {"bytes=", "-", "0", "1", "2", "x"}

RangeTexts == SeqsUpTo(RangeAlphabet, MaxRangeLen)

(* Request targets as the HTTP parser lets them through: origin form       *)
(* ("/...") or absolute form ("http://host/...").                          *)
SegAlphabet == {"", ".", "..", "d"}

Targets ==
    { <<"">> \o s : s \in SeqsUpTo(SegAlphabet, MaxSegs - 1) }
        \cup { <<"http:", "", "h">> }
        \cup { <<"http:", "", "h">> \o s : s \in SeqsUpTo(SegAlphabet, MaxSegs - 3) }

Answered == { q \in Requests : reqs[q].res.finished }

(* The validators the responses so far have given the clients. *)
SeenETags == { reqs[q].res.headers["etag"] : q \in Answered }

SeenLastModified == { reqs[q].res.headers["last-modified"] : q \in Answered }

Idle == [r \in Requests |-> NewReq]

-----------------------------------------------------------------------------
(* Spec: requests without validators for the paths of the tree, served     *)
(* concurrently while files are removed and rewritten.                     *)

Init ==
    /\ config = AllEnabled
    /\ fs = Tree(MaxSize)
    /\ fsOps = 0
    /\ alive = TRUE
    /\ reqs = Idle

Next ==
    \/ \E r \in Requests : Start(r, RouteUrls, {NoHeaders})
    \/ \E r \in Requests : RouteHandlerCb(r)
    \/ \E r \in Requests : RespondCb(r)
    \/ \E r \in Requests : ReaddirIO(r)
    \/ \E r \in Requests : ReaddirCb(r)
    \/ \E r \in Requests : StreamSettle(r)
    \/ Remove({<<"www", "a.js">>, <<"www", "d", "index.html">>, <<"www", "e">>})
    \/ Touch({<<"www", "a.js">>})

Spec == Init /\ [][Next]_vars

-----------------------------------------------------------------------------
(* SpecFresh: conditional requests for a file that is rewritten, with the  *)
(* ETag flag on and off.                                                   *)

InitFresh ==
    /\ config \in { c \in Configs : /\ c.strictOffsets /\ c.enableLastModified
                                    /\ c.enableExpires /\ c.enableCacheControl }
    /\ fs = Tree(MaxSize)
    /\ fsOps = 0
    /\ alive = TRUE
    /\ reqs = Idle

NextFresh ==
    \/ \E r \in Requests :
          Start(r, {<<"", "a.js">>},
                Headers({<<>>}, SeenETags \cup {<<>>},
                        SeenLastModified \cup {<<>>}, {<<>>}))
    \/ \E r \in Requests : RouteHandlerCb(r)
    \/ \E r \in Requests : RespondCb(r)
    \/ \E r \in Requests : StreamSettle(r)
    \/ Touch({<<"www", "a.js">>})

SpecFresh == InitFresh /\ [][NextFresh]_vars

-----------------------------------------------------------------------------
(* SpecRange: one request for a file of every size with every Range        *)
(* header, on both kinds of runtime.                                       *)

InitRange ==
    /\ config \in { c \in Configs : /\ c.enableExpires /\ c.enableCacheControl
                                    /\ c.enableETag /\ c.enableLastModified }
    /\ fs \in { Tree(size) : size \in 0..MaxSize }
    /\ fsOps = 0
    /\ alive = TRUE
    /\ reqs = Idle

RangeHeaders == Headers(RangeTexts, {<<>>}, {<<>>}, {<<>>})

NextRange ==
    \/ Start(1, {<<"", "a.js">>}, RangeHeaders)
    \/ RouteHandlerCb(1)
    \/ RespondCb(1)
    \/ StreamSettle(1)

SpecRange == InitRange /\ [][NextRange]_vars

-----------------------------------------------------------------------------
(* SpecPath: one request for every request target.                         *)

InitPath ==
    /\ config = AllEnabled
    /\ fs = Tree(MaxSize)
    /\ fsOps = 0
    /\ alive = TRUE
    /\ reqs = Idle

NextPath ==
    \/ Start(1, Targets, {NoHeaders})
    \/ RouteHandlerCb(1)
    \/ RespondCb(1)
    \/ ReaddirIO(1)
    \/ ReaddirCb(1)
    \/ StreamSettle(1)

SpecPath == InitPath /\ [][NextPath]_vars

-----------------------------------------------------------------------------
(* SpecOne: one request with every combination of target, Range,           *)
(* validators and Accept-Encoding, while a file or directory is removed.   *)

OneUrls == RouteUrls \cup { <<"", "e", "b.png">> }

OneRanges ==
    { <<>>, <<"bytes=", "0", "-", "0">>, <<"bytes=", "1", "-", "0">>,
      <<"bytes=", "-">>, <<"x">> }

OneEncodings ==
    { <<>>, <<"gzip">>, <<"gzip", ",", "deflate">>, <<"deflate">>, <<"br">> }

InitOne ==
    /\ config \in { c \in Configs : c.enableExpires /\ c.enableCacheControl }
    /\ fs = Tree(MaxSize)
    /\ fsOps = 0
    /\ alive = TRUE
    /\ reqs = Idle

OneHeaders ==
    Headers(OneRanges, {<<>>, generateETag(File(MaxSize, 0))},
            {<<>>, toUTCString(0)}, OneEncodings)

NextOne ==
    \/ Start(1, OneUrls, OneHeaders)
    \/ RouteHandlerCb(1)
    \/ RespondCb(1)
    \/ ReaddirIO(1)
    \/ ReaddirCb(1)
    \/ StreamSettle(1)
    \/ Remove({<<"www", "a.js">>, <<"www", "d", "index.html">>, <<"www", "e">>})

SpecOne == InitOne /\ [][NextOne]_vars

-----------------------------------------------------------------------------
(* SpecTable: one request for a file with every combination of            *)
(* If-None-Match and If-Modified-Since (absent, of the file as it is, of   *)
(* the file at another time), with the ETag and Last-Modified flags on and *)
(* off.                                                                    *)

TableMtimes == {0, MsPerSec}

InitTable ==
    /\ config \in { c \in Configs : /\ c.strictOffsets
                                    /\ c.enableExpires /\ c.enableCacheControl }
    /\ fs \in { [Tree(MaxSize) EXCEPT ![<<"www", "a.js">>] = File(MaxSize, m)] :
                  m \in TableMtimes }
    /\ fsOps = 0
    /\ alive = TRUE
    /\ reqs = Idle

TableHeaders ==
    Headers({<<>>},
            {<<>>} \cup { generateETag(File(MaxSize, m)) : m \in TableMtimes },
            {<<>>} \cup { toUTCString(m) : m \in TableMtimes },
            {<<>>})

NextTable ==
    \/ Start(1, {<<"", "a.js">>}, TableHeaders)
    \/ RouteHandlerCb(1)
    \/ RespondCb(1)
    \/ StreamSettle(1)

SpecTable == InitTable /\ [][NextTable]_vars

-----------------------------------------------------------------------------
(* Weak fairness of the callback of respond's fs.stat, written out: the    *)
(* callback is enabled exactly while the process is alive and the request  *)
(* waits for it (it always moves the request on), so it is weakly fair     *)
(* when, again and again, it is not pending or it runs.                    *)
FairRespondCb(r) ==
    \/ []<>~(alive /\ reqs[r].pc = "respondStat")
    \/ []<><<RespondCb(r)>>_vars

-----------------------------------------------------------------------------
(* SpecAbort: requests for a file, whole or ranged, compressed or not,     *)
(* whose client may close the connection and whose file may be removed     *)
(* while the body is piped.  The event loop runs every pending callback:   *)
(* weak fairness of the callbacks.                                         *)

AbortHeaders ==
    Headers({<<>>, <<"bytes=", "0", "-", "0">>}, {<<>>}, {<<>>},
            {<<>>, <<"gzip">>, <<"deflate">>})

NextAbort ==
    \/ \E r \in Requests : Start(r, {<<"", "a.js">>}, AbortHeaders)
    \/ \E r \in Requests : RouteHandlerCb(r)
    \/ \E r \in Requests : RespondCb(r)
    \/ \E r \in Requests : StreamSettle(r)
    \/ \E r \in Requests : ClientClose(r)
    \/ Remove({<<"www", "a.js">>})

SpecAbort ==
    /\ Init
    /\ [][NextAbort]_vars
    /\ \A r \in Requests :
          /\ WF_vars(RouteHandlerCb(r))
          /\ FairRespondCb(r)
          /\ WF_vars(StreamSettle(r))

-----------------------------------------------------------------------------
(* SpecLive: one request for a file, a directory without index page or a   *)
(* missing path, with and without a Range header, while a file or a        *)
(* directory is removed; weak fairness of the callbacks.                   *)

LiveUrls == { <<"", "a.js">>, <<"", "e", "">>, <<"", "n">> }

LiveHeaders ==
    Headers({<<>>, <<"x">>, <<"bytes=", "0", "-", "0">>, <<"bytes=", "-">>},
            {<<>>}, {<<>>}, {<<>>})

InitLive ==
    /\ config \in { c \in Configs : /\ c.enableExpires /\ c.enableCacheControl
                                    /\ c.enableETag /\ c.enableLastModified }
    /\ fs = Tree(MaxSize)
    /\ fsOps = 0
    /\ alive = TRUE
    /\ reqs = Idle

NextLive ==
    \/ Start(1, LiveUrls, LiveHeaders)
    \/ RouteHandlerCb(1)
    \/ RespondCb(1)
    \/ ReaddirIO(1)
    \/ ReaddirCb(1)
    \/ StreamSettle(1)
    \/ Remove({<<"www", "a.js">>, <<"www", "e">>})

SpecLive ==
    /\ InitLive
    /\ [][NextLive]_vars
    /\ WF_vars(RouteHandlerCb(1))
    /\ FairRespondCb(1)
    /\ WF_vars(ReaddirIO(1))
    /\ WF_vars(ReaddirCb(1))
    /\ WF_vars(StreamSettle(1))

-----------------------------------------------------------------------------
(* The claims.                                                             *)

(* The request is past the callback of respond's fs.stat. *)
Responded(rq) == rq.pc \in {"piping", "done", "threw"} /\ rq.stat.kind = "file"

ContentRange(rq) == rq.res.headers["content-range"]

(* The header "bytes=a-b". *)
RangeText(a, b) == <<"bytes=">> \o Dec(Num(a)) \o <<"-">> \o Dec(Num(b))

AllDigits(ds) == ds # <<>> /\ \A i \in 1..Len(ds) : IsDigit(ds[i])

(* C1: a request gets at most one terminal response: end() is called at   *)
(* most once on a response, no writeHead, end or pipe is performed on a    *)
(* response that has ended, and no callback is pending once it has ended.  *)
C1_OneTerminalResponse ==
    \A r \in Requests :
        /\ reqs[r].res.ends <= 1
        /\ ~reqs[r].res.afterEnd
        /\ reqs[r].res.finished => reqs[r].pc = "done"

C1_Witness ==
    \E r \in Requests :
        /\ reqs[r].pc = "done"
        /\ reqs[r].res.statusCode = 416
        /\ reqs[r].res.finished
        /\ reqs[r].res.ends = 1

(* C2: the path that is stat-ed and served has the root as a prefix, for   *)
(* every request target.                                                   *)
C2_PathInsideRoot ==
    \A r \in Requests : reqs[r].pc # "idle" => IsPrefix(root, reqs[r].pathName)

(* C3: a request whose handling failed (the second stat failed, readdir    *)
(* failed, the stream failed) has ended with status 500, and the process   *)
(* is alive.                                                               *)
C3_FailureScoped ==
    \A r \in Requests :
        reqs[r].pc = "threw" =>
            /\ alive
            /\ reqs[r].res.statusCode = 500
            /\ reqs[r].res.finished

(* A Range header the pattern does not match, or matches with both groups *)
(* empty.                                                                  *)
MalformedRange(text) ==
    LET m == rangeMatch(text) IN m.null \/ (m.g1 = <<>> /\ m.g2 = <<>>)

(* C4: a file request with a malformed Range header is answered 416 with   *)
(* an empty body and Content-Range "bytes * / size"; no stream is opened.  *)
C4_MalformedRange416 ==
    \A r \in Requests :
        LET rq == reqs[r]
        IN  ( /\ Responded(rq)
              /\ rq.headers["range"] # <<>>
              /\ MalformedRange(rq.headers["range"]) ) =>
                /\ rq.pc = "done"
                /\ rq.res.statusCode = 416
                /\ rq.res.finished
                /\ rq.res.body = NoBody
                /\ ContentRange(rq) = <<"bytes */">> \o Dec(Num(rq.stat.size))
                /\ rq.stream.state = "none"

(* C5: a range served with 206 lies within the file:                       *)
(* 0 <= start <= end <= size - 1.                                          *)
C5_RangeWithinFile ==
    \A r \in Requests :
        LET rq == reqs[r]
        IN  (rq.res.statusCode = 206 /\ rq.stream.state # "none") =>
                /\ ~rq.stream.start.nan
                /\ ~rq.stream.end.nan
                /\ 0 <= rq.stream.start.v
                /\ rq.stream.start.v <= rq.stream.end.v
                /\ rq.stream.end.v <= rq.stat.size - 1

(* C6: a request that is not fresh, for a file of size S with              *)
(* "Range: bytes=a-b", 0 <= a <= b < S, is answered 206 with Content-Range *)
(* "bytes a-b/S" from a stream over the offsets a..b, which delivers the   *)
(* b-a+1 bytes at these offsets.                                           *)
C6_ValidRange206 ==
    \A r \in Requests : \A a \in 0..MaxSize, b \in 0..MaxSize :
        LET rq == reqs[r]
            S  == rq.stat.size
        IN  ( /\ Responded(rq)
              /\ ~isFresh(rq.headers, rq.res.headers)
              /\ rq.headers["range"] = RangeText(a, b)
              /\ a <= b /\ b < S ) =>
                /\ rq.pc \in {"piping", "done"}
                /\ rq.res.statusCode = 206
                /\ ContentRange(rq) = <<"bytes ">> \o Dec(Num(a)) \o <<"-">>
                                        \o Dec(Num(b)) \o <<"/">> \o Dec(Num(S))
                /\ ~rq.stream.whole
                /\ rq.stream.path = rq.pathName
                /\ rq.stream.start = Num(a)
                /\ rq.stream.end = Num(b)
                /\ rq.pc = "done" =>
                      /\ rq.res.finished
                      /\ Len(rq.res.body.data) = b - a + 1
                      /\ \A i \in 1..(b - a + 1) : rq.res.body.data[i] = a + i

C6_Witness ==
    \E r \in Requests :
        /\ reqs[r].pc = "done"
        /\ reqs[r].headers["range"] = RangeText(0, 1)
        /\ reqs[r].stat.size = 2
        /\ reqs[r].res.statusCode = 206
        /\ reqs[r].res.body.data = <<1, 2>>

(* C7: a range whose computed start > S, end > S or start > end is         *)
(* answered 416 with Content-Range "bytes * / S" and an empty body, and no *)
(* read stream is created.                                                 *)
C7_Unsatisfiable416 ==
    \A r \in Requests :
        LET rq == reqs[r]
            S  == rq.stat.size
            rg == getRange(rq.headers["range"], S)
        IN  ( /\ Responded(rq)
              /\ rq.headers["range"] # <<>>
              /\ ~rg.threw
              /\ (Gt(rg.start, Num(S)) \/ Gt(rg.end, Num(S)) \/ Gt(rg.start, rg.end)) ) =>
                /\ rq.pc = "done"
                /\ rq.res.statusCode = 416
                /\ ContentRange(rq) = <<"bytes */">> \o Dec(Num(S))
                /\ rq.res.finished
                /\ rq.res.ends = 1
                /\ rq.res.body = NoBody
                /\ rq.stream.state = "none"

C7_Witness ==
    \E r \in Requests :
        /\ reqs[r].pc = "done"
        /\ reqs[r].headers["range"] = <<"bytes=", "0", "-", "2">>
        /\ reqs[r].stat.size = 1
        /\ reqs[r].res.statusCode = 416
        /\ reqs[r].res.finished

(* C8: "bytes=-N" on a file of size S is resolved to start = S-N,          *)
(* end = S-1, and, for 1 <= N <= S, the response delivers the last N       *)
(* bytes; "bytes=a-" is resolved to start = a, end = S-1, and, for a < S,  *)
(* the response delivers the bytes from offset a on.                       *)
C8_OpenRanges ==
    \A r \in Requests :
        LET rq   == reqs[r]
            S    == rq.stat.size
            text == rq.headers["range"]
            rg   == getRange(text, S)
            Served(from) ==
                /\ rq.pc \in {"piping", "done"}
                /\ rq.res.statusCode = 206
                /\ rq.stream.start = Num(from)
                /\ rq.stream.end = Num(S - 1)
                /\ rq.pc = "done" =>
                      /\ Len(rq.res.body.data) = S - from
                      /\ \A i \in 1..(S - from) : rq.res.body.data[i] = from + i
        IN  /\ ( /\ Responded(rq)
                 /\ Len(text) >= 3 /\ text[1] = "bytes=" /\ text[2] = "-"
                 /\ AllDigits(SubSeq(text, 3, Len(text))) ) =>
                   LET N == DigitsValue(SubSeq(text, 3, Len(text)))
                   IN  /\ rg = [threw |-> FALSE, start |-> Num(S - N), end |-> Num(S - 1)]
                       /\ (1 <= N /\ N <= S) => Served(S - N)
            /\ ( /\ Responded(rq)
                 /\ Len(text) >= 3 /\ text[1] = "bytes=" /\ text[Len(text)] = "-"
                 /\ AllDigits(SubSeq(text, 2, Len(text) - 1)) ) =>
                   LET a == DigitsValue(SubSeq(text, 2, Len(text) - 1))
                   IN  /\ rg = [threw |-> FALSE, start |-> Num(a), end |-> Num(S - 1)]
                       /\ a < S => Served(a)

C8_Witness ==
    \E r \in Requests :
        /\ reqs[r].pc = "done"
        /\ reqs[r].headers["range"] = <<"bytes=", "-", "1">>
        /\ reqs[r].stat.size = 2
        /\ reqs[r].res.statusCode = 206
        /\ reqs[r].res.body.data = <<2>>

(* C9: with the ETag flag enabled, a request that sends as If-None-Match   *)
(* the ETag of another response, for a file whose size and mtime are as    *)
(* that response saw them, and no mismatching If-Modified-Since, is        *)
(* answered 304 with an empty body, and no read stream is opened.          *)
C9_NotModified ==
    \A r \in Requests : \A q \in Answered \ {r} :
        LET rq == reqs[r]
        IN  ( /\ config.enableETag
              /\ Responded(rq)
              /\ rq.headers["if-none-match"] = reqs[q].res.headers["etag"]
              /\ rq.stat = reqs[q].stat
              /\ \/ rq.headers["if-modified-since"] = <<>>
                 \/ rq.headers["if-modified-since"] = rq.res.headers["last-modified"] ) =>
                /\ rq.pc = "done"
                /\ rq.res.statusCode = 304
                /\ rq.res.finished
                /\ rq.res.body = NoBody
                /\ rq.stream.state = "none"

C9_Witness ==
    \E r \in Requests : \E q \in Answered \ {r} :
        /\ reqs[q].res.statusCode = 200
        /\ reqs[q].res.headers["etag"] # <<>>
        /\ reqs[r].headers["if-none-match"] = reqs[q].res.headers["etag"]
        /\ reqs[r].stat = reqs[q].stat
        /\ reqs[r].pc = "done"
        /\ reqs[r].res.statusCode = 304

(* The index page of the directory a request names. *)
IndexOf(rq) == join(join(root, normalize(rq.url)), <<indexPage>>)

(* C10: when the first stat finds a directory, a URL path without trailing *)
(* slash is answered 301 with Location the request URL followed by '/',    *)
(* and nothing else is served; with a trailing slash and the index page in *)
(* the directory the request goes to respond() on the index file, and the  *)
(* response that ends it, when not fresh and without Range, is 200 with    *)
(* that file's content.                                                    *)
C10_DirectoryRouting ==
    /\ [][ \A r \in Requests :
             ( /\ reqs[r].pc = "routeStat"
               /\ reqs'[r].pc # "routeStat"
               /\ statOf(fs, reqs[r].pathName).kind = "dir" ) =>
                 IF ~hasTrailingSlash(pathname(reqs[r].url))
                 THEN /\ reqs'[r].pc = "done"
                      /\ reqs'[r].res.statusCode = 301
                      /\ reqs'[r].res.headers["location"] = Str(reqs[r].url) \o <<"/">>
                      /\ reqs'[r].res.finished
                      /\ reqs'[r].res.ends = 1
                      /\ reqs'[r].res.body.data = <<>>
                      /\ reqs'[r].stream.state = "none"
                 ELSE existsSync(fs, IndexOf(reqs[r])) =>
                      /\ reqs'[r].pc = "respondStat"
                      /\ reqs'[r].pathName = IndexOf(reqs[r]) ]_vars
    /\ [](\A r \in Requests :
             LET rq == reqs[r]
             IN  ( /\ rq.pc = "done"
                   /\ hasTrailingSlash(pathname(rq.url))
                   /\ rq.stat.kind = "file"
                   /\ rq.headers["range"] = <<>>
                   /\ ~isFresh(rq.headers, rq.res.headers) ) =>
                     /\ rq.res.statusCode = 200
                     /\ rq.res.finished
                     /\ rq.stream.path = IndexOf(rq)
                     /\ rq.res.body.data = Content(rq.stat.size))

C10_Witness ==
    /\ \E r \in Requests :
          /\ reqs[r].url = <<"", "d">>
          /\ reqs[r].pc = "done"
          /\ reqs[r].res.statusCode = 301
    /\ \E r \in Requests :
          /\ reqs[r].url = <<"", "d", "">>
          /\ reqs[r].pc = "done"
          /\ reqs[r].res.statusCode = 200
          /\ reqs[r].stream.path = <<"", "www", "d", "index.html">>
          /\ reqs[r].res.body.data = Content(MaxSize)

(* The text holds the sub-text. *)
Contains(text, sub) ==
    \E i \in 1..(Len(text) + 1) :
        /\ i + Len(sub) - 1 <= Len(text)
        /\ SubSeq(text, i, i + Len(sub) - 1) = sub

(* C11: a request whose first stat failed (it is past routeHandler's       *)
(* callback without a stat result) has ended with status 404 and an HTML   *)
(* body that contains the request URL; no freshness header, no range       *)
(* header and no stream was made for it.                                   *)
C11_NotFound ==
    \A r \in Requests :
        LET rq == reqs[r]
        IN  (rq.pc \notin {"idle", "routeStat"} /\ rq.stat.kind = "none") =>
                /\ rq.pc = "done"
                /\ rq.res.statusCode = 404
                /\ rq.res.finished
                /\ rq.res.ends = 1
                /\ rq.res.headers["content-type"] = <<"text/html">>
                /\ Contains(rq.res.body.text, Str(rq.url))
                /\ rq.res.body.data = <<>>
                /\ \A h \in HeaderNames \ {"content-type"} : rq.res.headers[h] = <<>>
                /\ rq.stream = NoStream

C11_Witness ==
    \E r \in Requests :
        /\ reqs[r].url = <<"", "n">>
        /\ reqs[r].headers["range"] # <<>>
        /\ reqs[r].headers["if-none-match"] # <<>>
        /\ reqs[r].pc = "done"
        /\ reqs[r].res.statusCode = 404
        /\ Contains(reqs[r].res.body.text, <<"/", "n">>)

(* The content coding compressHandler is to choose for an Accept-Encoding. *)
Negotiated(acceptEncoding) ==
    IF \E i \in 1..Len(acceptEncoding) : acceptEncoding[i] = "gzip" THEN "gzip"
    ELSE IF \E i \in 1..Len(acceptEncoding) : acceptEncoding[i] = "deflate"
    THEN "deflate"
    ELSE ""

(* C12: where compressHandler has run (a read stream was made and piped),  *)
(* an absent Accept-Encoding or one with neither gzip nor deflate leaves   *)
(* the stream as it is and sets no Content-Encoding; one with gzip sets    *)
(* Content-Encoding gzip and the body is the gzip transform of the bytes   *)
(* read; one with deflate and no gzip sets Content-Encoding deflate.       *)
C12_Negotiation ==
    \A r \in Requests :
        LET rq == reqs[r]
            coding == Negotiated(rq.headers["accept-encoding"])
        IN  rq.stream.state # "none" =>
                /\ rq.stream.transform = coding
                /\ rq.res.headers["content-encoding"] =
                       (IF coding = "" THEN <<>> ELSE <<coding>>)
                /\ rq.stream.state = "ended" =>
                       /\ rq.res.body.encoding = coding
                       /\ (rq.stream.whole /\ fsOps = 0) =>
                              rq.res.body.data = Content(rq.stat.size)

C12_Witness ==
    \E r \in Requests :
        /\ reqs[r].headers["accept-encoding"] = <<"gzip", ",", "deflate">>
        /\ reqs[r].url = <<"", "a.js">>
        /\ reqs[r].pc = "done"
        /\ reqs[r].stream.state = "ended"
        /\ reqs[r].res.headers["content-encoding"] = <<"gzip">>
        /\ reqs[r].res.body.encoding = "gzip"
        /\ reqs[r].res.body.data = Content(MaxSize)

(* The compressible-extension set of the configuration (config.json): the *)
(* text extensions.  The constructor does not read it.                     *)
compressibleExtensions == { <<".js">>, <<".html">> }

(* C13: for a file whose extension is not in the configured compressible   *)
(* set compressHandler is not invoked: the stream has no transform, the    *)
(* response has no Content-Encoding and its body is not encoded, whatever  *)
(* Accept-Encoding offers.                                                 *)
C13_OnlyCompressible ==
    \A r \in Requests :
        LET rq == reqs[r]
        IN  ( /\ rq.stream.state # "none"
              /\ extname(rq.stream.path) \notin compressibleExtensions ) =>
                /\ rq.stream.transform = ""
                /\ rq.res.headers["content-encoding"] = <<>>
                /\ rq.res.body.encoding = ""

(* A GET without If-None-Match, If-Modified-Since and Range. *)
Unconditional(rq) ==
    /\ rq.headers["if-none-match"] = <<>>
    /\ rq.headers["if-modified-since"] = <<>>
    /\ rq.headers["range"] = <<>>

(* C14: handling a request changes nothing a request reads (the           *)
(* configuration and the file system), and, while no file has changed,    *)
(* two unconditional GETs of the same URL that have been answered, however *)
(* their callbacks interleaved, have the same status and the same body:    *)
(* for a file, 200 and the file's bytes.                                   *)
C14_Idempotent ==
    /\ [][ reqs' # reqs => UNCHANGED <<config, fs>> ]_vars
    /\ [](\A r1, r2 \in Requests :
             LET a == reqs[r1]
                 b == reqs[r2]
             IN  ( /\ r1 # r2
                   /\ fsOps = 0
                   /\ a.pc = "done" /\ b.pc = "done"
                   /\ a.url = b.url
                   /\ Unconditional(a) /\ Unconditional(b) ) =>
                     /\ a.res.statusCode = b.res.statusCode
                     /\ a.res.body = b.res.body
                     /\ a.stat.kind = "file" =>
                            /\ a.res.statusCode = 200
                            /\ a.res.body.data = Content(a.stat.size))

C14_Witness ==
    /\ fsOps = 0
    /\ \A r \in Requests :
          /\ reqs[r].url = <<"", "a.js">>
          /\ reqs[r].pc = "done"
          /\ reqs[r].res.statusCode = 200
          /\ reqs[r].res.body.data = Content(MaxSize)

(* The validators the server computes for a file, absent (empty) when the *)
(* flag is off.                                                            *)
ComputedETag(stat) == IF config.enableETag THEN generateETag(stat) ELSE <<>>

ComputedLastModified(stat) ==
    IF config.enableLastModified THEN toUTCString(stat.mtime) ELSE <<>>

(* C15: a file request is answered 304 exactly when it carries            *)
(* If-None-Match or If-Modified-Since and each one it carries equals the   *)
(* computed ETag, respectively Last-Modified; a validator whose flag is    *)
(* off, so that nothing is computed, does not match.                       *)
C15_FreshTable ==
    \A r \in Requests :
        LET rq  == reqs[r]
            inm == rq.headers["if-none-match"]
            ims == rq.headers["if-modified-since"]
        IN  Responded(rq) =>
              ( rq.res.statusCode = 304 <=>
                  /\ inm # <<>> \/ ims # <<>>
                  /\ inm # <<>> => inm = ComputedETag(rq.stat)
                  /\ ims # <<>> => ims = ComputedLastModified(rq.stat) )

(* If-None-Match matches, If-Modified-Since is there and differs: 200. *)
C15_Witness ==
    \E r \in Requests :
        /\ config.enableETag /\ config.enableLastModified
        /\ reqs[r].pc = "done"
        /\ reqs[r].headers["if-none-match"] = generateETag(reqs[r].stat)
        /\ reqs[r].headers["if-modified-since"] # <<>>
        /\ reqs[r].headers["if-modified-since"] # toUTCString(reqs[r].stat.mtime)
        /\ reqs[r].res.statusCode = 200
        /\ reqs[r].res.body.data = Content(MaxSize)

(* C16: freshness is decided before the range: a file request that is     *)
(* fresh and carries a Range header, whatever the header, is answered 304  *)
(* with an empty body; no Content-Range or Accept-Ranges is set, the       *)
(* status is not 206 or 416, no stream is made and nothing is thrown.      *)
(* The file is the one both fs.stat calls found.                           *)
C16_FreshBeforeRange ==
    \A r \in Requests :
        LET rq  == reqs[r]
            inm == rq.headers["if-none-match"]
            ims == rq.headers["if-modified-since"]
        IN  ( /\ Responded(rq)
              /\ statOf(fs, rq.pathName) = rq.stat
              /\ rq.headers["range"] # <<>>
              /\ inm # <<>> \/ ims # <<>>
              /\ inm # <<>> => inm = ComputedETag(rq.stat)
              /\ ims # <<>> => ims = ComputedLastModified(rq.stat) ) =>
                /\ rq.pc = "done"
                /\ rq.res.statusCode = 304
                /\ rq.res.finished
                /\ rq.res.ends = 1
                /\ rq.res.body = NoBody
                /\ ContentRange(rq) = <<>>
                /\ rq.res.headers["accept-ranges"] = <<>>
                /\ rq.stream = NoStream

(* A fresh request with a Range header that matches no range pattern. *)
C16_Witness ==
    \E r \in Requests :
        /\ reqs[r].headers["range"] = <<"x">>
        /\ reqs[r].headers["if-none-match"] # <<>>
        /\ reqs[r].stat.kind = "file"
        /\ reqs[r].pc = "done"
        /\ reqs[r].res.statusCode = 304

(* C17: a request whose fs.readdir failed has ended with status 500, and   *)
(* the listing was not written: no 200, no listing body.                   *)
C17_ReaddirFailure500 ==
    \A r \in Requests :
        LET rq == reqs[r]
        IN  (rq.io.err /\ rq.pc \notin {"readdir", "readdirCb"}) =>
                /\ rq.pc = "done"
                /\ rq.res.statusCode = 500
                /\ rq.res.finished
                /\ rq.res.ends = 1
                /\ ~rq.res.afterEnd

(* C18: a response with status 206 has no Content-Encoding, its stream    *)
(* goes through no transform, and its body, once piped from an unchanged   *)
(* file, is the bytes start..end of the file, not encoded, whatever        *)
(* Accept-Encoding the request sent.                                       *)
C18_NoCompressionOn206 ==
    \A r \in Requests :
        LET rq == reqs[r]
        IN  rq.res.statusCode = 206 =>
                /\ rq.res.headers["content-encoding"] = <<>>
                /\ rq.stream.transform = ""
                /\ rq.res.body.encoding = ""
                /\ ( /\ rq.stream.state = "ended"
                     /\ ~BadOffsets(rq.stream)
                     /\ fsOps = 0 ) =>
                       rq.res.body.data =
                           SubSeq(Content(rq.stat.size), rq.stream.start.v + 1,
                                  Min(rq.stream.end.v + 1, rq.stat.size))

(* C19: every read stream opened for a request (with its transform) is     *)
(* released in the end, at the latest when the process ends: also when     *)
(* the client closes the connection while the body is piped and when the   *)
(* stream fails.                                                           *)
C19_StreamsReleased ==
    \A r \in Requests :
        (reqs[r].stream.state = "open") ~> (reqs[r].stream.state # "open" \/ ~alive)

(* The statuses of a terminal response. *)
TerminalStatuses == {200, 206, 301, 304, 404, 416, 500}

(* C20: under fair scheduling of the callbacks every request received      *)
(* gets a terminal response in the end: one of the terminal statuses,      *)
(* with the response ended.                                                *)
C20_EventuallyAnswered ==
    \A r \in Requests :
        (reqs[r].pc # "idle") ~>
            (reqs[r].res.finished /\ reqs[r].res.statusCode \in TerminalStatuses)

====
